---- MODULE Spec2Model ----
(***************************************************************************)
(* Model of scripts/util.py: the statistical helpers for frequentist A/B   *)
(* tests (pooled_prob, pooled_SE, ab_dist, min_sample_size, p_val) and the *)
(* Bernoulli series synthesizer get_bernouli_series.                       *)
(*                                                                         *)
(* Floating-point numbers are modelled as exact rationals in lowest terms, *)
(* together with the special values nan, +inf and -inf that numpy          *)
(* produces; a square root is kept as an exact surd.  A Python exception   *)
(* is a value of kind "raise".                                             *)
(***************************************************************************)
EXTENDS Integers, Sequences, FiniteSets

VARIABLES pc, args, ret, zip_pos, bernouli_series, origin, sample_mean

vars == <<pc, args, ret, zip_pos, bernouli_series, origin, sample_mean>>

(***************************************************************************)
(* Bounds of the model.                                                    *)
(***************************************************************************)
\* longest engagment_list / success_list
MaxLen == 3
\* largest per-period engagement or success count
MaxCount == 2
\* largest sample size N_A, N_B
MaxN == 4
\* probabilities (bcr, mde, p_A, d_hat) are the multiples of 1/Grid
Grid == 10
\* largest stderr and |d_hat| handed to ab_dist
MaxStd == 2

(***************************************************************************)
(* Numbers.                                                                *)
(***************************************************************************)
Abs(x) == IF x < 0 THEN -x ELSE x

Sign(x) == IF x < 0 THEN -1 ELSE IF x = 0 THEN 0 ELSE 1

RECURSIVE GCD(_, _)
GCD(a, b) == IF b = 0 THEN a ELSE GCD(b, a % b)

\* the rational n/d (d # 0) in lowest terms with a positive denominator
Num(n, d) ==
    LET g == GCD(Abs(n), Abs(d))
    IN  [k |-> "num", n |-> Sign(d) * (n \div g), d |-> Abs(d) \div g]

NaN == [k |-> "nan", n |-> 0, d |-> 1]

Inf(s) == [k |-> "inf", n |-> s, d |-> 1]

Raise(e) == [k |-> "raise", e |-> e]

None == [k |-> "none"]

IsNum(x) == x.k = "num"

FSign(x) == Sign(x.n)

FNeg(x) == IF x.k = "nan" THEN NaN ELSE [x EXCEPT !.n = -x.n]

FAdd(x, y) ==
    IF x.k = "nan" \/ y.k = "nan" THEN NaN
    ELSE IF x.k = "inf" /\ y.k = "inf" THEN (IF x.n = y.n THEN x ELSE NaN)
    ELSE IF x.k = "inf" THEN x
    ELSE IF y.k = "inf" THEN y
    ELSE Num(x.n * y.d + y.n * x.d, x.d * y.d)

FSub(x, y) == FAdd(x, FNeg(y))

FMul(x, y) ==
    IF x.k = "nan" \/ y.k = "nan" THEN NaN
    ELSE IF x.k = "inf" \/ y.k = "inf"
         THEN (IF FSign(x) * FSign(y) = 0 THEN NaN ELSE Inf(FSign(x) * FSign(y)))
    ELSE LET g1 == GCD(Abs(x.n), y.d)
             g2 == GCD(Abs(y.n), x.d)
         IN  Num((x.n \div g1) * (y.n \div g2), (x.d \div g2) * (y.d \div g1))

\* numpy division: a zero divisor gives inf or nan (with a RuntimeWarning)
FDiv(x, y) ==
    IF x.k = "nan" \/ y.k = "nan" THEN NaN
    ELSE IF y.k = "inf" THEN (IF x.k = "inf" THEN NaN ELSE Num(0, 1))
    ELSE IF y.n = 0 THEN (IF FSign(x) = 0 THEN NaN ELSE Inf(FSign(x)))
    ELSE IF x.k = "inf" THEN Inf(FSign(x) * FSign(y))
    ELSE FMul(x, Num(y.d, y.n))

\* a/b < c/d for b, d > 0, by comparing the integer parts and then the
\* reciprocals of the fractional parts (no product that could overflow)
RECURSIVE RatLt(_, _, _, _)
RatLt(a, b, c, d) ==
    IF a \div b # c \div d THEN a \div b < c \div d
    ELSE IF c % d = 0 THEN FALSE
    ELSE IF a % b = 0 THEN TRUE
    ELSE RatLt(d, c % d, b, a % b)

FLt(x, y) == IsNum(x) /\ IsNum(y) /\ RatLt(x.n, x.d, y.n, y.d)

FLe(x, y) == IsNum(x) /\ IsNum(y) /\ ~RatLt(y.n, y.d, x.n, x.d)

\* np.sqrt: the exact surd of a non-negative number, nan of a negative one
np_sqrt(x) ==
    IF x.k = "nan" THEN NaN
    ELSE IF x.k = "inf" THEN (IF x.n > 0 THEN x ELSE NaN)
    ELSE IF x.n < 0 THEN NaN
    ELSE [k |-> "sqrt", n |-> x.n, d |-> x.d]

\* s**2 of a value np.sqrt returned
Square(s) == IF s.k = "sqrt" THEN Num(s.n, s.d) ELSE FMul(s, s)

(***************************************************************************)
(* get_bernouli_series                                                     *)
(***************************************************************************)
Min(a, b) == IF a < b THEN a ELSE b

\* n * [v]: the empty list when n <= 0
Repeat(v, n) == [j \in 1..n |-> v]

\* faulty variant: the successes are not taken off the engagement count
no_list_AllEngagments(engagment, success) == Repeat(0, engagment)

no_list(engagment, success) == Repeat(0, engagment - success)

yes_list(success) == Repeat(1, success)

series_item(engagment, success) == yes_list(success) \o no_list(engagment, success)

\* the orders random.shuffle can leave a list of n items in
Perms(n) == {p \in [1..n -> 1..n] : \A a, b \in 1..n : p[a] = p[b] => a = b}

Permute(s, p) == [j \in 1..Len(s) |-> s[p[j]]]

\* faulty variant: the shuffled period is put in front of the series
LoopBody_Prepend(bs, og, engagment, success, i) ==
    LET item == series_item(engagment, success)
        tags == Repeat(i, Len(item))
    IN  {[bs |-> Permute(item, p) \o bs, og |-> Permute(tags, p) \o og] :
            p \in Perms(Len(item))}

\* faulty variant: random.shuffle is applied to the whole series built so far
LoopBody_ShuffleAll(bs, og, engagment, success, i) ==
    LET item == series_item(engagment, success)
        tags == Repeat(i, Len(item))
    IN  {[bs |-> Permute(bs \o item, p), og |-> Permute(og \o tags, p)] :
            p \in Perms(Len(bs) + Len(item))}

\* one pass of the loop body for period i: every (series, origin) it can leave
LoopBody(bs, og, engagment, success, i) ==
    LET item == series_item(engagment, success)
        tags == Repeat(i, Len(item))
    IN  {[bs |-> bs \o Permute(item, p), og |-> og \o Permute(tags, p)] :
            p \in Perms(Len(item))}

Max(a, b) == IF a < b THEN b ELSE a

\* faulty variant: the shorter input is padded with 0 (itertools.zip_longest)
zip_Longest(el, sl) ==
    [j \in 1..Max(Len(el), Len(sl)) |->
        <<IF j <= Len(el) THEN el[j] ELSE 0, IF j <= Len(sl) THEN sl[j] ELSE 0>>]

\* list(zip(engagment_list, success_list)): zip stops at the shorter input
zip(el, sl) == [j \in 1..Min(Len(el), Len(sl)) |-> <<el[j], sl[j]>>]

RECURSIVE SeqSum(_)
SeqSum(s) == IF Len(s) = 0 THEN 0 ELSE s[1] + SeqSum(SubSeq(s, 2, Len(s)))

Ones(s) == Cardinality({j \in 1..Len(s) : s[j] = 1})

Zeros(s) == Cardinality({j \in 1..Len(s) : s[j] = 0})

SeqsUpTo(S, n) == UNION {[1..m -> S] : m \in 0..n}

SeriesInit ==
    /\ args \in [engagment_list : SeqsUpTo(0..MaxCount, MaxLen),
                 success_list : SeqsUpTo(0..MaxCount, MaxLen)]
    /\ pc = "loop"
    /\ zip_pos = 1
    /\ bernouli_series = <<>>
    /\ origin = <<>>
    /\ ret = None
    /\ sample_mean = None

\* lines 145-150: one iteration of the for loop
SeriesLoop ==
    /\ pc = "loop"
    /\ zip_pos <= Len(zip(args.engagment_list, args.success_list))
    /\ LET pair == zip(args.engagment_list, args.success_list)[zip_pos]
       IN  \E r \in LoopBody(bernouli_series, origin, pair[1], pair[2], zip_pos) :
              /\ bernouli_series' = r.bs
              /\ origin' = r.og
    /\ zip_pos' = zip_pos + 1
    /\ UNCHANGED <<pc, args, ret, sample_mean>>

\* line 151: zip is exhausted, the series is returned
SeriesReturn ==
    /\ pc = "loop"
    /\ zip_pos > Len(zip(args.engagment_list, args.success_list))
    /\ ret' = bernouli_series
    /\ pc' = "done"
    /\ UNCHANGED <<args, zip_pos, bernouli_series, origin, sample_mean>>

SeriesNext == SeriesLoop \/ SeriesReturn

SpecSeries == SeriesInit /\ [][SeriesNext]_vars

(***************************************************************************)
(* Properties of get_bernouli_series                                       *)
(***************************************************************************)
\* the inputs the synthesizer is specified for
ValidSeriesInput ==
    /\ Len(args.engagment_list) = Len(args.success_list)
    /\ \A j \in 1..Len(args.engagment_list) :
          args.success_list[j] <= args.engagment_list[j]

\* sum of the first j entries of s
PrefixSum(s, j) == SeqSum(SubSeq(s, 1, j))

\* the output positions of period j
PeriodRange(j) ==
    (PrefixSum(args.engagment_list, j - 1) + 1)..PrefixSum(args.engagment_list, j)

\* every series the loop can have built after its first j iterations
RECURSIVE SeriesAfter(_, _)
SeriesAfter(zp, j) ==
    IF j = 0 THEN {[bs |-> <<>>, og |-> <<>>]}
    ELSE UNION {LoopBody(r.bs, r.og, zp[j][1], zp[j][2], j) : r \in SeriesAfter(zp, j - 1)}

PossibleOutputs ==
    LET zp == zip(args.engagment_list, args.success_list)
    IN  {r.bs : r \in SeriesAfter(zp, Len(zp))}

\* every arrangement of k ones and n - k zeros
Arrangements(n, k) == {t \in [1..n -> {0, 1}] : Ones(t) = k}

\* C1: for valid inputs the returned series holds only 0s and 1s, has length
\* sum(engagment_list), exactly sum(success_list) ones and exactly
\* sum(engagment - success) zeros, whatever the shuffles did.
C1_ExactCounts ==
    (pc = "done" /\ ValidSeriesInput) =>
        /\ \A j \in 1..Len(ret) : ret[j] \in {0, 1}
        /\ Len(ret) = SeqSum(args.engagment_list)
        /\ Ones(ret) = SeqSum(args.success_list)
        /\ Zeros(ret) = SeqSum([j \in 1..Len(args.engagment_list) |->
                                  args.engagment_list[j] - args.success_list[j]])

C1_Witness ==
    /\ pc = "done"
    /\ ValidSeriesInput
    /\ args.engagment_list = <<2, 2>>
    /\ args.success_list = <<1, 2>>
    /\ ret = <<0, 1, 1, 1>>

\* C2: for valid inputs the outcomes of period i occupy exactly the contiguous
\* positions sum(engagment_list[0..i-1]) .. sum(engagment_list[0..i]) - 1 of the
\* output, and that sub-range holds exactly success_list[i] ones.
C2_CrossPeriodOrder ==
    (pc = "done" /\ ValidSeriesInput) =>
        \A j \in 1..Len(args.engagment_list) :
            /\ {q \in 1..Len(ret) : origin[q] = j} = PeriodRange(j)
            /\ Cardinality({q \in PeriodRange(j) : ret[q] = 1}) = args.success_list[j]

C2_Witness ==
    /\ pc = "done"
    /\ ValidSeriesInput
    /\ args.engagment_list = <<2, 2>>
    /\ args.success_list = <<1, 1>>
    /\ ret = <<0, 1, 1, 0>>
    /\ origin = <<1, 1, 2, 2>>

\* C7 as stated: with two or more periods every arrangement of the total ones
\* and zeros is a possible output (an outcome of period i can end up anywhere).
C7_AnyPosition ==
    (pc = "done" /\ ValidSeriesInput /\ Len(args.engagment_list) >= 2) =>
        Arrangements(Len(ret), Ones(ret)) \subseteq PossibleOutputs

\* C7 amended: the order is randomized within each period only.  No outcome of
\* a later period ever precedes an outcome of an earlier one, and for valid
\* inputs the possible outputs are exactly the series that hold
\* success_list[i] ones inside the positions of each period i.
C7_WithinPeriodOnly ==
    /\ \A q, r \in 1..Len(bernouli_series) : q < r => origin[q] <= origin[r]
    /\ (pc = "done" /\ ValidSeriesInput) =>
          PossibleOutputs =
             {t \in Arrangements(Len(ret), Ones(ret)) :
                 \A j \in 1..Len(args.engagment_list) :
                    Cardinality({q \in PeriodRange(j) : t[q] = 1}) = args.success_list[j]}

C7_Witness ==
    /\ pc = "done"
    /\ args.engagment_list = <<1, 2>>
    /\ args.success_list = <<0, 1>>
    /\ ret = <<0, 0, 1>>
    /\ <<0, 1, 0>> \in PossibleOutputs
    /\ <<1, 0, 0>> \notin PossibleOutputs

\* the zip pairs are per-period consistent: success <= engagment in each
ValidZipPairs ==
    \A j \in 1..Len(zip(args.engagment_list, args.success_list)) :
        args.success_list[j] <= args.engagment_list[j]

\* C10 as stated: on inputs of different lengths the series is built from the
\* first min(len, len) periods only, so its length is not the sum of all
\* engagement counts.
C10_LengthNeverTotal ==
    (pc = "done" /\ Len(args.engagment_list) # Len(args.success_list)) =>
        /\ \A q \in 1..Len(ret) :
              origin[q] <= Min(Len(args.engagment_list), Len(args.success_list))
        /\ Len(ret) # SeqSum(args.engagment_list)

\* C10 amended: on inputs of different lengths no error is raised and the
\* series is built from the first m = min(len, len) periods only; its length
\* is the sum over those periods of max(engagment, success), which for
\* consistent periods is the sum of the first m engagement counts, and that
\* differs from the sum of all engagement counts exactly when the ignored
\* trailing engagement counts are not all zero.
C10_ZipTruncates ==
    (pc = "done" /\ Len(args.engagment_list) # Len(args.success_list)) =>
        LET m == Min(Len(args.engagment_list), Len(args.success_list))
            tail == SubSeq(args.engagment_list, m + 1, Len(args.engagment_list))
        IN  /\ \A q \in 1..Len(ret) : origin[q] <= m /\ ret[q] \in {0, 1}
            /\ Len(ret) = SeqSum([j \in 1..m |->
                              Max(args.engagment_list[j], args.success_list[j])])
            /\ Ones(ret) = PrefixSum(args.success_list, m)
            /\ ValidZipPairs =>
                  /\ Len(ret) = PrefixSum(args.engagment_list, m)
                  /\ (Len(ret) # SeqSum(args.engagment_list)) <=> (SeqSum(tail) > 0)

C10_Witness ==
    /\ pc = "done"
    /\ args.engagment_list = <<2, 1>>
    /\ args.success_list = <<1>>
    /\ ret = <<0, 1>>

(***************************************************************************)
(* pooled_prob and pooled_SE                                               *)
(***************************************************************************)
\* a / b of two Python ints: ZeroDivisionError when b = 0
TrueDiv(a, b) == IF b = 0 THEN Raise("ZeroDivisionError") ELSE Num(a, b)

\* faulty variant: the pooled successes are divided by the size of sample A alone
pooled_prob_OverNA(N_A, N_B, X_A, X_B) == TrueDiv(X_A + X_B, N_A)

pooled_prob(N_A, N_B, X_A, X_B) == TrueDiv(X_A + X_B, N_A + N_B)

\* faulty variant: the 1 / N_B term is left out
pooled_SE_OnlyNA(N_A, N_B, X_A, X_B) ==
    LET p_hat == pooled_prob(N_A, N_B, X_A, X_B)
    IN  IF p_hat.k = "raise" THEN p_hat
        ELSE IF N_A = 0 THEN Raise("ZeroDivisionError")
        ELSE np_sqrt(FMul(FMul(p_hat, FSub(Num(1, 1), p_hat)), TrueDiv(1, N_A)))

pooled_SE(N_A, N_B, X_A, X_B) ==
    LET p_hat == pooled_prob(N_A, N_B, X_A, X_B)
    IN  IF p_hat.k = "raise" THEN p_hat
        ELSE IF N_A = 0 \/ N_B = 0 THEN Raise("ZeroDivisionError")
        ELSE np_sqrt(FMul(FMul(p_hat, FSub(Num(1, 1), p_hat)),
                          FAdd(TrueDiv(1, N_A), TrueDiv(1, N_B))))

PooledInit ==
    /\ args \in [N_A : 0..MaxN, N_B : 0..MaxN, X_A : 0..MaxN, X_B : 0..MaxN]
    /\ pc = "call"
    /\ ret = None
    /\ zip_pos = 0
    /\ bernouli_series = <<>>
    /\ origin = <<>>
    /\ sample_mean = None

PooledProbCall ==
    /\ pc = "call"
    /\ ret' = pooled_prob(args.N_A, args.N_B, args.X_A, args.X_B)
    /\ pc' = "done_pooled_prob"
    /\ UNCHANGED <<args, zip_pos, bernouli_series, origin, sample_mean>>

PooledSECall ==
    /\ pc = "call"
    /\ ret' = pooled_SE(args.N_A, args.N_B, args.X_A, args.X_B)
    /\ pc' = "done_pooled_SE"
    /\ UNCHANGED <<args, zip_pos, bernouli_series, origin, sample_mean>>

PooledNext == PooledProbCall \/ PooledSECall

SpecPooled == PooledInit /\ [][PooledNext]_vars

\* the Sample invariant: N positive, 0 <= X <= N, for both arms
ValidSamples ==
    /\ args.N_A > 0 /\ args.N_B > 0
    /\ 0 <= args.X_A /\ args.X_A <= args.N_A
    /\ 0 <= args.X_B /\ args.X_B <= args.N_B

\* C3: for valid Samples pooled_prob is the number (X_A + X_B) / (N_A + N_B)
\* and lies in [0, 1]; pooled_prob(1000, 1000, 100, 120) is 0.11.
C3_PooledProb ==
    /\ (pc = "done_pooled_prob" /\ ValidSamples) =>
          /\ IsNum(ret)
          /\ ret.n * (args.N_A + args.N_B) = (args.X_A + args.X_B) * ret.d
          /\ 0 <= ret.n /\ ret.n <= ret.d
    /\ pooled_prob(1000, 1000, 100, 120) = Num(11, 100)

C3_Witness ==
    /\ pc = "done_pooled_prob"
    /\ args = [N_A |-> 3, N_B |-> 4, X_A |-> 1, X_B |-> 2]
    /\ ret = Num(3, 7)

\* C8: for valid Samples pooled_SE gives the same value with the two samples
\* swapped, and the value under the square root,
\* p_hat * (1 - p_hat) * (1/N_A + 1/N_B), is non-negative (the result is a
\* real number, not nan).
C8_PooledSESymmetric ==
    (pc = "done_pooled_SE" /\ ValidSamples) =>
        /\ ret = pooled_SE(args.N_B, args.N_A, args.X_B, args.X_A)
        /\ ret.k = "sqrt"
        /\ ret.n >= 0 /\ ret.d > 0
        /\ LET p_hat == Num(args.X_A + args.X_B, args.N_A + args.N_B)
           IN  Num(ret.n, ret.d) =
                  FMul(FMul(p_hat, FSub(Num(1, 1), p_hat)),
                       Num(args.N_A + args.N_B, args.N_A * args.N_B))

C8_Witness ==
    /\ pc = "done_pooled_SE"
    /\ args = [N_A |-> 2, N_B |-> 4, X_A |-> 1, X_B |-> 2]
    /\ ret = [k |-> "sqrt", n |-> 3, d |-> 16]

(***************************************************************************)
(* ab_dist                                                                 *)
(***************************************************************************)
\* a local variable that has been assigned the value v
Bound(v) == [k |-> "bound", v |-> v]

\* scs.norm(loc, scale): a frozen normal distribution
scs_norm(loc, scale) == [k |-> "norm", loc |-> loc, scale |-> scale]

GroupTypes == {"control", "test", "treatment", "Control"}

\* faulty variant: every group type other than 'test' is treated as the control group
ab_dist_branch_ElseControl(sm, d_hat, group_type) ==
    IF group_type = "test" THEN Bound(d_hat) ELSE Bound(0)

\* lines 55-59: the local sample_mean after the if / elif (no else branch)
ab_dist_branch(sm, d_hat, group_type) ==
    IF group_type = "control" THEN Bound(0)
    ELSE IF group_type = "test" THEN Bound(d_hat)
    ELSE sm

DistInit ==
    /\ args \in [stderr : 0..MaxStd, d_hat : (-MaxStd)..MaxStd, group_type : GroupTypes]
    /\ pc = "if"
    /\ sample_mean = None
    /\ ret = None
    /\ zip_pos = 0
    /\ bernouli_series = <<>>
    /\ origin = <<>>

DistBranch ==
    /\ pc = "if"
    /\ sample_mean' = ab_dist_branch(sample_mean, args.d_hat, args.group_type)
    /\ pc' = "norm"
    /\ UNCHANGED <<args, ret, zip_pos, bernouli_series, origin>>

\* lines 62-63 with sample_mean assigned
DistReturn ==
    /\ pc = "norm"
    /\ sample_mean.k = "bound"
    /\ ret' = scs_norm(sample_mean.v, args.stderr)
    /\ pc' = "done"
    /\ UNCHANGED <<args, sample_mean, zip_pos, bernouli_series, origin>>

\* line 62 reading the local sample_mean that was never assigned
DistRaise ==
    /\ pc = "norm"
    /\ sample_mean.k # "bound"
    /\ ret' = Raise("UnboundLocalError")
    /\ pc' = "raised"
    /\ UNCHANGED <<args, sample_mean, zip_pos, bernouli_series, origin>>

DistNext == DistBranch \/ DistReturn \/ DistRaise

SpecDist == DistInit /\ [][DistNext]_vars

\* C5: ab_dist returns a normal distribution with standard deviation stderr and
\* mean 0 for 'control', mean d_hat for 'test'; for every other group_type the
\* call raises instead of returning a distribution.
C5_AbDist ==
    /\ pc \in {"done", "raised"} =>
          /\ args.group_type = "control" =>
                pc = "done" /\ ret = scs_norm(0, args.stderr)
          /\ args.group_type = "test" =>
                pc = "done" /\ ret = scs_norm(args.d_hat, args.stderr)
          /\ args.group_type \notin {"control", "test"} =>
                pc = "raised" /\ ret.k = "raise"
    /\ pc = "norm" => (sample_mean.k = "bound" <=> args.group_type \in {"control", "test"})

C5_Witness ==
    /\ pc = "raised"
    /\ args.group_type = "treatment"
    /\ args.d_hat = 1
    /\ ret = Raise("UnboundLocalError")

(***************************************************************************)
(* p_val                                                                   *)
(***************************************************************************)
\* all multiples of 1/Grid from lo/Grid to hi/Grid
GridNums(lo, hi) == {Num(j, Grid) : j \in lo..hi}

\* x / s for a number x and a value s of np.sqrt, by numpy's rules: a signed
\* surd, kept exact as sign * sqrt(n / d)
DivBySqrt(x, s) ==
    IF x.k = "nan" \/ s.k = "nan" THEN NaN
    ELSE IF s.k = "inf" THEN Num(0, 1)
    ELSE IF s.n = 0 THEN (IF x.n = 0 THEN NaN ELSE Inf(Sign(x.n)))
    ELSE IF x.n = 0 THEN Num(0, 1)
    ELSE LET q == FDiv(FMul(x, x), Num(s.n, s.d))
         IN  [k |-> "ssqrt", s |-> Sign(x.n), n |-> q.n, d |-> q.d]

\* scs.norm().sf(z), the upper tail 1 - Phi(z): 1/2 at z = 0, 0 and 1 at the
\* infinities, nan at nan; elsewhere the exact value is kept as sf of z
norm_sf(z) ==
    IF z.k = "nan" THEN NaN
    ELSE IF z.k = "inf" THEN (IF z.n > 0 THEN Num(0, 1) ELSE Num(1, 1))
    ELSE IF z.k = "num" /\ z.n = 0 THEN Num(1, 2)
    ELSE [k |-> "sf", z |-> z]

p_val(N_A, N_B, p_A, d_hat) ==
    IF N_A = 0 \/ N_B = 0 THEN Raise("ZeroDivisionError")
    ELSE LET one == Num(1, 1)
             p_B == FAdd(p_A, d_hat)
             std_a == np_sqrt(FDiv(FMul(p_A, FSub(one, p_A)), Num(N_A, 1)))
             std_b == np_sqrt(FDiv(FMul(p_B, FSub(one, p_B)), Num(N_B, 1)))
             z_score == DivBySqrt(d_hat, np_sqrt(FAdd(Square(std_a), Square(std_b))))
         IN  norm_sf(z_score)

PValInit ==
    /\ args \in [N_A : 0..MaxN, N_B : 0..MaxN, p_A : GridNums(0, Grid),
                 d_hat : GridNums(-Grid, Grid)]
    /\ pc = "call"
    /\ ret = None
    /\ zip_pos = 0
    /\ bernouli_series = <<>>
    /\ origin = <<>>
    /\ sample_mean = None

PValCall ==
    /\ pc = "call"
    /\ ret' = p_val(args.N_A, args.N_B, args.p_A, args.d_hat)
    /\ pc' = "done_p_val"
    /\ UNCHANGED <<args, zip_pos, bernouli_series, origin, sample_mean>>

PValNext == PValCall

SpecPVal == PValInit /\ [][PValNext]_vars

\* the stated requirements of p_val
ValidPValInput ==
    /\ args.N_A > 0 /\ args.N_B > 0
    /\ FLe(Num(0, 1), args.p_A) /\ FLe(args.p_A, Num(1, 1))
    /\ FLe(Num(0, 1), FAdd(args.p_A, args.d_hat))
    /\ FLe(FAdd(args.p_A, args.d_hat), Num(1, 1))

\* C4: for every input that meets the requirements of p_val and has d_hat = 0,
\* including the baselines p_A = 0 and p_A = 1 where both standard deviations
\* are 0, p_val returns 0.5.
C4_ZeroEffectIsHalf ==
    (pc = "done_p_val" /\ ValidPValInput /\ args.d_hat = Num(0, 1)) =>
        ret = Num(1, 2)

(***************************************************************************)
(* min_sample_size (defined twice in the source; the later definition      *)
(* shadows the first one)                                                  *)
(***************************************************************************)
\* the values of power and sig_level the model calls min_sample_size with
Powers == {Num(1, 4), Num(1, 2), Num(4, 5), Num(9, 10)}

SigLevels == {Num(1, 20), Num(1, 10), Num(1, 2)}

\* scs.norm(0, 1).ppf: the standard normal quantile, to two decimals, at the
\* probabilities the model uses.  It is odd around p = 1/2 and increasing.
norm_ppf(p) ==
    CASE p = Num(1, 4) -> Num(-67, 100)
      [] p = Num(1, 2) -> Num(0, 1)
      [] p = Num(3, 4) -> Num(67, 100)
      [] p = Num(4, 5) -> Num(84, 100)
      [] p = Num(9, 10) -> Num(128, 100)
      [] p = Num(19, 20) -> Num(164, 100)
      [] p = Num(39, 40) -> Num(196, 100)

\* faulty variant: a one-tailed Z_alpha, ppf(1 - sig_level)
min_sample_size_first_OneTailed(bcr, mde, power, sig_level) ==
    LET Z_beta == norm_ppf(power)
        Z_alpha == norm_ppf(FSub(Num(1, 1), sig_level))
        pooled == FDiv(FAdd(FAdd(bcr, bcr), mde), Num(2, 1))
        Z == FAdd(Z_beta, Z_alpha)
    IN  FDiv(FMul(FMul(FMul(Num(2, 1), pooled), FSub(Num(1, 1), pooled)), FMul(Z, Z)),
             FMul(mde, mde))

\* lines 66-99: the first definition
min_sample_size_first(bcr, mde, power, sig_level) ==
    LET Z_beta == norm_ppf(power)
        Z_alpha == norm_ppf(FSub(Num(1, 1), FDiv(sig_level, Num(2, 1))))
        pooled == FDiv(FAdd(FAdd(bcr, bcr), mde), Num(2, 1))
        Z == FAdd(Z_beta, Z_alpha)
    IN  FDiv(FMul(FMul(FMul(Num(2, 1), pooled), FSub(Num(1, 1), pooled)), FMul(Z, Z)),
             FMul(mde, mde))

\* faulty variant: the numerator is multiplied by mde**2, not divided by it
min_sample_size_TimesMde(bcr, mde, power, sig_level) ==
    LET Z_beta == norm_ppf(power)
        Z_alpha == norm_ppf(FSub(Num(1, 1), FDiv(sig_level, Num(2, 1))))
        pooled == FDiv(FAdd(FAdd(bcr, bcr), mde), Num(2, 1))
        Z == FAdd(Z_beta, Z_alpha)
    IN  FMul(FMul(FMul(FMul(Num(2, 1), pooled), FSub(Num(1, 1), pooled)), FMul(Z, Z)),
             FMul(mde, mde))

\* lines 110-116: the later definition, the one the module exports
min_sample_size(bcr, mde, power, sig_level) ==
    LET Z_beta == norm_ppf(power)
        Z_alpha == norm_ppf(FSub(Num(1, 1), FDiv(sig_level, Num(2, 1))))
        pooled == FDiv(FAdd(FAdd(bcr, bcr), mde), Num(2, 1))
        Z == FAdd(Z_beta, Z_alpha)
    IN  FDiv(FMul(FMul(FMul(Num(2, 1), pooled), FSub(Num(1, 1), pooled)), FMul(Z, Z)),
             FMul(mde, mde))

SizeInit ==
    /\ args \in [bcr : GridNums(0, Grid), mde : GridNums(-Grid, Grid),
                 power : Powers, sig_level : SigLevels]
    /\ pc = "call"
    /\ ret = None
    /\ zip_pos = 0
    /\ bernouli_series = <<>>
    /\ origin = <<>>
    /\ sample_mean = None

\* a call bound to the first definition (before line 110 rebinds the name)
SizeCallFirst ==
    /\ pc = "call"
    /\ ret' = min_sample_size_first(args.bcr, args.mde, args.power, args.sig_level)
    /\ pc' = "done_first"
    /\ UNCHANGED <<args, zip_pos, bernouli_series, origin, sample_mean>>

\* a call of the module's min_sample_size
SizeCall ==
    /\ pc = "call"
    /\ ret' = min_sample_size(args.bcr, args.mde, args.power, args.sig_level)
    /\ pc' = "done_min_sample_size"
    /\ UNCHANGED <<args, zip_pos, bernouli_series, origin, sample_mean>>

SizeNext == SizeCallFirst \/ SizeCall

SpecSize == SizeInit /\ [][SizeNext]_vars

\* bcr in (0, 1), mde > 0 and bcr + mde <= 1
ValidSizeInput ==
    /\ FLt(Num(0, 1), args.bcr) /\ FLt(args.bcr, Num(1, 1))
    /\ FLt(Num(0, 1), args.mde)
    /\ FLe(FAdd(args.bcr, args.mde), Num(1, 1))

\* the smaller effects 0 < mde1 < mde on the grid
SmallerEffects == {m \in GridNums(1, Grid) : FLt(m, args.mde)}

\* Z_beta + Z_alpha of the call
ZSum ==
    FAdd(norm_ppf(args.power),
         norm_ppf(FSub(Num(1, 1), FDiv(args.sig_level, Num(2, 1)))))

C9_SameDefinition ==
    /\ pc = "done_first" =>
          ret = min_sample_size(args.bcr, args.mde, args.power, args.sig_level)
    /\ pc = "done_min_sample_size" =>
          ret = min_sample_size_first(args.bcr, args.mde, args.power, args.sig_level)

C9_Witness ==
    /\ pc = "done_first"
    /\ args = [bcr |-> Num(1, 10), mde |-> Num(-1, 10), power |-> Num(9, 10),
               sig_level |-> Num(1, 10)]
    /\ IsNum(ret) /\ ret.n > 0

====
